---- MODULE Spec2Model ----
(***************************************************************************)
(* A model of ardilla: the blocking Crud facade (ardilla/crud.py), the     *)
(* suspending AsyncCrud facade (ardilla/asyncio/crud.py) and the Engine    *)
(* (ardilla/engine.py) over one SQLite table.                              *)
(*                                                                         *)
(* Python's None is NoErr / NoPk for names, NoneInt for numbers (NULL,     *)
(* NoRowid, NoCon) and the empty sequence for an optional instance.        *)
(***************************************************************************)
EXTENDS Integers, Sequences, FiniteSets, TLC

\* ------------------------------------------------------------- bounds
MaxVal == 2
MaxRowid == 2
MaxObjs == 2
MaxDdlRuns == 2
MaxScopes == 2

Vals == 1..MaxVal
NoneInt == 0
NULL == NoneInt
NoRowid == NoneInt
NoCon == NoneInt
NoErr == "None"
NoPk == "None"
ConIds == 1..(MaxScopes + 2)

\* ------------------------------------------------------------- names
\* The characters of each column name the models below use.
Spelling(k) ==
  CASE k = "id" -> <<"i", "d">>
    [] k = "name" -> <<"n", "a", "m", "e">>
    [] k = "key" -> <<"k", "e", "y">>
    [] k = "uid" -> <<"u", "i", "d">>
    [] k = "title" -> <<"t", "i", "t", "l", "e">>
    [] OTHER -> <<"n", "o", "n", "e", "x", "i", "s", "t", "e", "n", "t">>

\* Python's `sub in s` on strings.
IsSubstr(sub, s) ==
  \E i \in 1..(Len(s) - Len(sub) + 1) : SubSeq(s, i, i + Len(sub) - 1) = sub

\* `"id" in k`
HasId(k) == IsSubstr(<<"i", "d">>, Spelling(k))

\* ------------------------------------------------------------- models
\* Model subclasses as Model.__init_subclass__ leaves them: __fields__,
\* __pk__ (the field declared primary, whatever its name), __tablename__
\* and __schema__.
User == [name |-> "User", tablename |-> "user", fields |-> {"id", "name"},
         pk |-> "id", schema |-> "CREATE TABLE IF NOT EXISTS user"]
Item == [name |-> "Item", tablename |-> "item", fields |-> {"key", "uid"},
         pk |-> "key", schema |-> "CREATE TABLE IF NOT EXISTS item"]
Note == [name |-> "Note", tablename |-> "note", fields |-> {"title"},
         pk |-> NoPk, schema |-> "CREATE TABLE IF NOT EXISTS note"]
Event == [name |-> "Event", tablename |-> "event", fields |-> {"uid"},
          pk |-> NoPk, schema |-> "CREATE TABLE IF NOT EXISTS event"]
ModelTypes == {User, Item, Note, Event}

\* A keyword that is no declared field of any model.
Unknown == "nonexistent"

\* Field mappings of a model: what obj.dict() returns.
Rows(M) == [M.fields -> Vals]

\* Instances: field values plus the captured __rowid__ (NoRowid when built in
\* memory, a rowid when a read or an insert returned it).
Instances(M) == [vals : Rows(M), rowid : {NoRowid} \cup (1..MaxRowid)]

\* Keyword arguments: a value for each key of a set of keys.
KwsOver(keys) == UNION {[D -> Vals] : D \in SUBSET keys}
\* The same keywords with one more, undeclared, keyword.
WithUnknown(kws) ==
  [k \in DOMAIN kws \cup {Unknown} |-> IF k = Unknown THEN 1 ELSE kws[k]]
\* Predicate keywords (get_or_none, get_many): at least one keyword; declared
\* fields, with or without an undeclared key.
PredicateKws(M) ==
  (KwsOver(M.fields) \ {<<>>}) \cup {WithUnknown(k) : k \in KwsOver(M.fields)}
\* Insert keywords (insert, insert_or_ignore, get_or_create): the complete
\* field set of a new row, with or without an undeclared key.
InsertKws(M) == {k \in PredicateKws(M) : M.fields \subseteq DOMAIN k}

\* ------------------------------------------------------------- the store
\* A table is a function from the rowids in use to rows (field -> value).
MaxOf(S) == IF S = {} THEN 0 ELSE CHOOSE m \in S : \A x \in S : x <= m

SetToSeq(S) ==
  LET RECURSIVE Build(_)
      Build(T) == IF T = {} THEN <<>>
                  ELSE LET m == CHOOSE x \in T : \A y \in T : x <= y
                       IN <<m>> \o Build(T \ {m})
  IN Build(S)

ColVal(table, r, col) == IF col = "rowid" THEN r ELSE table[r][col]

ColumnsOk(M, cols) == cols \subseteq (M.fields \cup {"rowid"})

\* Rowids of the rows equal to the bound values on every bound column.
RowidsMatching(table, binds) ==
  {r \in DOMAIN table : \A c \in DOMAIN binds : ColVal(table, r, c) = binds[c]}

Restrict(table, keep) == [r \in keep |-> table[r]]

ExecResult(table, rows, lastrowid, err) ==
  [table |-> table, rows |-> rows, lastrowid |-> lastrowid, err |-> err]

\* INSERT [OR IGNORE | OR REPLACE] INTO t (cols) VALUES (?, ...) [RETURNING *]
ExecInsert(M, table, q) ==
  LET row == [f \in M.fields |-> IF f \in DOMAIN q.binds THEN q.binds[f] ELSE NULL]
      clash == IF M.pk = NoPk THEN {}
               ELSE {r \in DOMAIN table : table[r][M.pk] = row[M.pk]}
      new == MaxOf(DOMAIN table) + 1
      kept == DOMAIN table \ clash
      stored == [r \in kept \cup {new} |-> IF r = new THEN row ELSE table[r]]
      out == IF q.returning THEN <<[rowid |-> NoRowid, vals |-> row]>> ELSE <<>>
  IN IF ~ColumnsOk(M, DOMAIN q.binds)
       THEN ExecResult(table, <<>>, NoRowid, "OperationalError")
     ELSE IF clash # {} /\ q.conflict = "ABORT"
       THEN ExecResult(table, <<>>, NoRowid, "IntegrityError")
     ELSE IF clash # {} /\ q.conflict = "IGNORE"
       THEN ExecResult(table, <<>>, NoRowid, NoErr)
     ELSE ExecResult(stored, out, new, NoErr)

\* SELECT rowid, * FROM t WHERE (c1 = ? AND c2 = ? ...) [LIMIT 1]
ExecSelect(M, table, q) ==
  LET hit == SetToSeq(RowidsMatching(table, q.binds))
      rows == [i \in 1..Len(hit) |-> [rowid |-> hit[i], vals |-> table[hit[i]]]]
  IN IF ~ColumnsOk(M, DOMAIN q.binds)
       THEN ExecResult(table, <<>>, NoRowid, "OperationalError")
     ELSE IF q.limit1 /\ Len(rows) > 1
       THEN ExecResult(table, <<rows[1]>>, NoRowid, NoErr)
     ELSE ExecResult(table, rows, NoRowid, NoErr)

\* DELETE FROM t WHERE col = ?   |   DELETE FROM t WHERE col IN (?, ...)
ExecDeleteIn(M, table, q) ==
  LET gone == {r \in DOMAIN table : ColVal(table, r, q.col) \in q.vals}
  IN IF ~ColumnsOk(M, {q.col})
       THEN ExecResult(table, <<>>, NoRowid, "OperationalError")
     ELSE ExecResult(Restrict(table, DOMAIN table \ gone), <<>>, NoRowid, NoErr)

\* DELETE FROM t WHERE (c1 = ? AND c2 = ? ...)
ExecDeleteAnd(M, table, q) ==
  LET gone == RowidsMatching(table, q.binds)
  IN IF ~ColumnsOk(M, DOMAIN q.binds)
       THEN ExecResult(table, <<>>, NoRowid, "OperationalError")
     ELSE ExecResult(Restrict(table, DOMAIN table \ gone), <<>>, NoRowid, NoErr)

\* DELETE FROM t WHERE (c1 = ?, c2 = ? ...): the comma list is a row value,
\* which SQLite accepts as a condition only when it has exactly one term
\* (none is a syntax error, several are "row value misused").
ExecDeleteList(M, table, q) ==
  IF Cardinality(DOMAIN q.binds) # 1
    THEN ExecResult(table, <<>>, NoRowid, "OperationalError")
  ELSE ExecDeleteAnd(M, table, q)

\* UPDATE t SET c1 = ?, ... WHERE col = ?
ExecUpdate(M, table, q) ==
  LET hit == {r \in DOMAIN table : ColVal(table, r, q.col) = q.val}
      set == [f \in M.fields |-> IF f \in DOMAIN q.binds THEN q.binds[f] ELSE NULL]
      stored == [r \in DOMAIN table |->
                   IF r \in hit
                     THEN [f \in M.fields |->
                             IF f \in DOMAIN q.binds THEN set[f] ELSE table[r][f]]
                   ELSE table[r]]
      clash == /\ M.pk # NoPk
               /\ \E r1, r2 \in DOMAIN table :
                     r1 # r2 /\ stored[r1][M.pk] = stored[r2][M.pk]
  IN IF ~ColumnsOk(M, DOMAIN q.binds \cup {q.col})
       THEN ExecResult(table, <<>>, NoRowid, "OperationalError")
     ELSE IF clash
       THEN ExecResult(table, <<>>, NoRowid, "IntegrityError")
     ELSE ExecResult(stored, <<>>, NoRowid, NoErr)

\* sqlite3's execute of one statement on the table of model M.
Execute(M, table, q) ==
  CASE q.kind = "INSERT" -> ExecInsert(M, table, q)
    [] q.kind = "SELECT" -> ExecSelect(M, table, q)
    [] q.kind = "DELETE_IN" -> ExecDeleteIn(M, table, q)
    [] q.kind = "DELETE_AND" -> ExecDeleteAnd(M, table, q)
    [] q.kind = "DELETE_LIST" -> ExecDeleteList(M, table, q)
    [] q.kind = "UPDATE" -> ExecUpdate(M, table, q)

\* ------------------------------------------------------------- queries
\* ardilla/queries.py: the statement builders of the blocking Crud, after the
\* design's QueryBuilder and IdentityResolver. A builder returns the statement
\* q, or the error it raises.
Built(q) == [err |-> NoErr, q |-> q]
Refused(err) == [err |-> err, q |-> [kind |-> "NONE"]]

for_do_insert(tablename, ignore, returning, kws) ==
  Built([kind |-> "INSERT", table |-> tablename,
         conflict |-> IF ignore THEN "IGNORE" ELSE "ABORT",
         binds |-> kws, returning |-> returning])

for_get_or_none(tablename, kws) ==
  Built([kind |-> "SELECT", table |-> tablename, binds |-> kws, limit1 |-> TRUE])

\* order_by and limit are left at their defaults (None).
for_get_many(M, kws) ==
  Built([kind |-> "SELECT", table |-> M.tablename, binds |-> kws, limit1 |-> FALSE])

\* Updated by identity when the instance has one (the declared primary key,
\* else the captured rowid), otherwise inserted or replaced.
for_save_one(M, obj) ==
  IF M.pk # NoPk
    THEN Built([kind |-> "UPDATE", table |-> M.tablename, binds |-> obj.vals,
                col |-> M.pk, val |-> obj.vals[M.pk]])
  ELSE IF obj.rowid # NoRowid
    THEN Built([kind |-> "UPDATE", table |-> M.tablename, binds |-> obj.vals,
                col |-> "rowid", val |-> obj.rowid])
  ELSE Built([kind |-> "INSERT", table |-> M.tablename, conflict |-> "REPLACE",
              binds |-> obj.vals, returning |-> FALSE])

\* Declared primary key, else captured rowid, else every field whose name
\* contains "id"; BadQueryError when there is none.
for_delete_one(M, obj) ==
  LET id_cols == {k \in M.fields : HasId(k)}
  IN IF M.pk # NoPk
       THEN Built([kind |-> "DELETE_IN", table |-> M.tablename, col |-> M.pk,
                   vals |-> {obj.vals[M.pk]}])
     ELSE IF obj.rowid # NoRowid
       THEN Built([kind |-> "DELETE_IN", table |-> M.tablename, col |-> "rowid",
                   vals |-> {obj.rowid}])
     ELSE IF id_cols = {}
       THEN Refused("BadQueryError")
     ELSE Built([kind |-> "DELETE_AND", table |-> M.tablename,
                 binds |-> [k \in id_cols |-> obj.vals[k]]])

\* An empty list is refused; all rowids captured: rowid membership; else the
\* declared primary key: primary-key membership; else BadQueryError.
for_delete_many(M, objs) ==
  IF objs = {}
    THEN Refused("IndexError")
  ELSE IF \A obj \in objs : obj.rowid # NoRowid
    THEN Built([kind |-> "DELETE_IN", table |-> M.tablename, col |-> "rowid",
                vals |-> {obj.rowid : obj \in objs}])
  ELSE IF M.pk # NoPk
    THEN Built([kind |-> "DELETE_IN", table |-> M.tablename, col |-> M.pk,
                vals |-> {obj.vals[M.pk] : obj \in objs}])
  ELSE Refused("BadQueryError")

\* CrudABC._row2obj(row, rowid=None): the instance of a result row, by column
\* name, with the row identity the read exposed or the insert generated.
row2obj(row, rowid) ==
  [vals |-> row.vals, rowid |-> IF rowid # NoRowid THEN rowid ELSE row.rowid]

\* ------------------------------------------------------------- engine
VARIABLES
  Model,           \* the model type of the Crud facade in use
  variant,         \* "sync": Crud over Engine; "async": AsyncCrud over AsyncEngine
  table,           \* the stored rows of Model's table
  schemas,         \* Engine.schemas
  cruds,           \* the keys of Engine._cruds
  tables_created,  \* Engine.tables_created
  ddl_runs,        \* how many times each schema has been executed on the store
  con,             \* Engine.con: the connection the engine last opened
  open_cons,       \* the connections that are open
  open_curs,       \* the cursors that are open, each on its connection
  held             \* the connection each open user `with engine` scope was given

vars == <<Model, variant, table, schemas, cruds, tables_created, ddl_runs,
          con, open_cons, open_curs, held>>

\* The resources an operation runs with: the engine's connection attribute,
\* the cursor of the operation's ContextCursor, what is open, and the trace.
Resources == [con |-> con, cur |-> 0, open_cons |-> open_cons,
              open_curs |-> open_curs, log |-> <<>>]

Logged(rs, event) == [rs EXCEPT !.log = Append(@, event)]

\* A connection object distinct from every open one and every one a scope holds.
FreshCon(rs) ==
  LET free == ConIds \ (rs.open_cons \cup {held[s] : s \in DOMAIN held})
  IN CHOOSE c \in free : \A d \in free : c <= d

CanConnect(rs) == ConIds \ (rs.open_cons \cup {held[s] : s \in DOMAIN held}) # {}

FreshCur(rs) ==
  LET used == {c.id : c \in rs.open_curs}
  IN CHOOSE i \in 1..(Cardinality(used) + 1) : i \notin used

\* Engine.__enter__: connect, remember the connection in self.con, return it.
Engine__enter__(rs) ==
  LET c == FreshCon(rs)
  IN Logged([rs EXCEPT !.con = c, !.open_cons = @ \cup {c}], "connect")

\* Engine.__exit__ as it would be without self.con.close().
Engine__exit__unclosed(rs) == Logged(rs, "exit")

\* Engine.__exit__: self.con.close(); closing a connection finalizes its cursors.
Engine__exit__(rs) ==
  Logged([rs EXCEPT !.open_cons = @ \ {rs.con},
                   !.open_curs = {c \in @ : c.con # rs.con}], "close")

\* ContextCursor.__enter__: self.cur = self.con.cursor()
ContextCursor__enter__(rs, c) ==
  LET i == FreshCur(rs)
  IN Logged([rs EXCEPT !.cur = i, !.open_curs = @ \cup {[id |-> i, con |-> c]}],
           "cursor")

\* ContextCursor.__exit__: self.cur.close()
ContextCursor__exit__(rs) ==
  Logged([rs EXCEPT !.open_curs = {c \in @ : c.id # rs.cur}], "close_cursor")

\* Connection.execute: the statement runs on a cursor of its own, which the
\* caller drops; it lives no longer than its connection.
Connection_execute(rs, c) ==
  LET i == FreshCur(rs)
  IN Logged([rs EXCEPT !.open_curs = @ \cup {[id |-> i, con |-> c]}], "execute")

\* ------------------------------------------------------------- Crud
\* What an operation leaves: the table, what it returns (an optional instance
\* or a list, as a sequence; the literal True as the flag `true`), the error
\* it raises, whether get_or_create took its insert path, and the resources.
Outcome(tbl, ret, err, created, rs) ==
  [table |-> tbl, ret |-> ret, err |-> err, created |-> created, rs |-> rs,
   true |-> FALSE]

\* `return True`
ReturnsTrue(o) == IF o.err = NoErr THEN [o EXCEPT !.true = TRUE] ELSE o

\* verify_kws: every keyword is a field of the model.
verify_kws(M, kws) == \A key \in DOMAIN kws : key \in M.fields

\* Crud._do_insert as it would be without the `except sqlite3.IntegrityError`
\* clause: the driver's error reaches the caller.
Crud_do_insert_untranslated(M, rs, tbl, ignore, returning, kws) ==
  LET b == for_do_insert(M.tablename, ignore, returning, kws)
      rs1 == Engine__enter__(Logged(rs, "build"))
      rs2 == ContextCursor__enter__(rs1, rs1.con)
      ex == Execute(M, tbl, b.q)
      rs3 == Logged(rs2, "execute")
      body == IF ex.err # NoErr
                THEN Outcome(tbl, <<>>, ex.err, FALSE, rs3)
              ELSE Outcome(ex.table,
                           IF returning /\ ex.rows # <<>>
                             THEN <<row2obj(ex.rows[1], ex.lastrowid)>> ELSE <<>>,
                           NoErr, FALSE, Logged(rs3, "commit"))
  IN [body EXCEPT !.rs = Engine__exit__(ContextCursor__exit__(body.rs))]

Crud_do_insert(M, rs, tbl, ignore, returning, kws) ==
  LET b == for_do_insert(M.tablename, ignore, returning, kws)
      rs1 == Engine__enter__(Logged(rs, "build"))
      rs2 == ContextCursor__enter__(rs1, rs1.con)
      ex == Execute(M, tbl, b.q)
      rs3 == Logged(rs2, "execute")
      body == IF ex.err = "IntegrityError"
                THEN Outcome(tbl, <<>>, "QueryExecutionError", FALSE, rs3)
              ELSE IF ex.err # NoErr
                THEN Outcome(tbl, <<>>, ex.err, FALSE, rs3)
              ELSE Outcome(ex.table,
                           IF returning /\ ex.rows # <<>>
                             THEN <<row2obj(ex.rows[1], ex.lastrowid)>> ELSE <<>>,
                           NoErr, FALSE, Logged(rs3, "commit"))
  IN [body EXCEPT !.rs = Engine__exit__(ContextCursor__exit__(body.rs))]

\* Crud.get_or_none as it would be with `if row:` never taken: the row that
\* was fetched is not returned.
Crud_get_or_none_dropped(M, rs, tbl, kws) ==
  IF ~verify_kws(M, kws) THEN Outcome(tbl, <<>>, "KeyError", FALSE, rs)
  ELSE
  LET b == for_get_or_none(M.tablename, kws)
      rs1 == Engine__enter__(Logged(rs, "build"))
      rs2 == ContextCursor__enter__(rs1, rs1.con)
      ex == Execute(M, tbl, b.q)
      rs3 == Logged(rs2, "execute")
      body == IF ex.err # NoErr THEN Outcome(tbl, <<>>, ex.err, FALSE, rs3)
              ELSE Outcome(tbl, <<>>, NoErr, FALSE, rs3)
  IN [body EXCEPT !.rs = Engine__exit__(ContextCursor__exit__(body.rs))]

Crud_get_or_none(M, rs, tbl, kws) ==
  IF ~verify_kws(M, kws) THEN Outcome(tbl, <<>>, "KeyError", FALSE, rs)
  ELSE
  LET b == for_get_or_none(M.tablename, kws)
      rs1 == Engine__enter__(Logged(rs, "build"))
      rs2 == ContextCursor__enter__(rs1, rs1.con)
      ex == Execute(M, tbl, b.q)
      rs3 == Logged(rs2, "execute")
      body == IF ex.err # NoErr THEN Outcome(tbl, <<>>, ex.err, FALSE, rs3)
              ELSE Outcome(tbl,
                           IF ex.rows # <<>> THEN <<row2obj(ex.rows[1], NoRowid)>>
                           ELSE <<>>,
                           NoErr, FALSE, rs3)
  IN [body EXCEPT !.rs = Engine__exit__(ContextCursor__exit__(body.rs))]

Crud_insert(M, rs, tbl, kws) ==
  IF ~verify_kws(M, kws) THEN Outcome(tbl, <<>>, "KeyError", FALSE, rs)
  ELSE Crud_do_insert(M, rs, tbl, FALSE, TRUE, kws)

Crud_insert_or_ignore(M, rs, tbl, kws) ==
  IF ~verify_kws(M, kws) THEN Outcome(tbl, <<>>, "KeyError", FALSE, rs)
  ELSE Crud_do_insert(M, rs, tbl, TRUE, TRUE, kws)

Crud_get_or_create(M, rs, tbl, kws) ==
  IF ~verify_kws(M, kws) THEN Outcome(tbl, <<>>, "KeyError", FALSE, rs)
  ELSE
  LET got == Crud_get_or_none(M, rs, tbl, kws)
      ins == Crud_insert_or_ignore(M, got.rs, got.table, kws)
  IN IF got.err # NoErr THEN got
     ELSE IF got.ret # <<>> THEN got
     ELSE IF ins.err # NoErr THEN ins
     ELSE [ins EXCEPT !.created = TRUE]

Crud_get_many(M, rs, tbl, kws) ==
  IF ~verify_kws(M, kws) THEN Outcome(tbl, <<>>, "KeyError", FALSE, rs)
  ELSE
  LET b == for_get_many(M, kws)
      rs1 == Engine__enter__(Logged(rs, "build"))
      rs2 == ContextCursor__enter__(rs1, rs1.con)
      ex == Execute(M, tbl, b.q)
      rs3 == Logged(rs2, "execute")
      body == IF ex.err # NoErr THEN Outcome(tbl, <<>>, ex.err, FALSE, rs3)
              ELSE Outcome(tbl,
                           [i \in 1..Len(ex.rows) |-> row2obj(ex.rows[i], NoRowid)],
                           NoErr, FALSE, rs3)
  IN [body EXCEPT !.rs = Engine__exit__(ContextCursor__exit__(body.rs))]

\* save_one, delete_one and delete_many share their shape: build, then
\* `with self.engine as con: con.execute(q, vals); con.commit()`, return True.
Crud_run(M, rs, tbl, b) ==
  IF b.err # NoErr THEN Outcome(tbl, <<>>, b.err, FALSE, rs)
  ELSE
  LET rs1 == Engine__enter__(Logged(rs, "build"))
      rs2 == Connection_execute(rs1, rs1.con)
      ex == Execute(M, tbl, b.q)
      body == IF ex.err # NoErr THEN Outcome(tbl, <<>>, ex.err, FALSE, rs2)
              ELSE Outcome(ex.table, <<>>, NoErr, FALSE, Logged(rs2, "commit"))
  IN ReturnsTrue([body EXCEPT !.rs = Engine__exit__(body.rs)])

Crud_save_one(M, rs, tbl, obj) == Crud_run(M, rs, tbl, for_save_one(M, obj))

Crud_delete_one(M, rs, tbl, obj) == Crud_run(M, rs, tbl, for_delete_one(M, obj))

Crud_delete_many(M, rs, tbl, objs) == Crud_run(M, rs, tbl, for_delete_many(M, objs))

\* ------------------------------------------------------------- AsyncEngine
\* ardilla/asyncio/engine.py, after the design's scoped acquisition: entering
\* the engine connects and keeps the connection in self.con, leaving it
\* closes that connection, and connect() opens a connection of its own.
AsyncEngine__aenter__(rs) == Engine__enter__(rs)

AsyncEngine__aexit__(rs) == Engine__exit__(rs)

AsyncEngine_connect(rs) ==
  LET c == FreshCon(rs)
  IN Logged([rs EXCEPT !.open_cons = @ \cup {c}], "connect")

\* ------------------------------------------------------------- AsyncCrud
AsyncCrud_get_or_none_any(M, rs, tbl, many, kws) ==
  LET q == [kind |-> "SELECT", table |-> M.tablename, binds |-> kws,
            limit1 |-> ~many]
      rs1 == AsyncEngine__aenter__(Logged(rs, "build"))
      ex == Execute(M, tbl, q)
      rs2 == Logged(rs1, "execute")
      \* `async with con.execute(q, vals) as cur`: the cursor exists only when
      \* execute returned one, and is closed on leaving the block.
      rs3 == ContextCursor__exit__(ContextCursor__enter__(rs2, rs2.con))
      body == IF ex.err # NoErr THEN Outcome(tbl, <<>>, ex.err, FALSE, rs2)
              ELSE IF many
                THEN Outcome(tbl,
                             [i \in 1..Len(ex.rows) |-> row2obj(ex.rows[i], NoRowid)],
                             NoErr, FALSE, rs3)
              ELSE Outcome(tbl,
                           IF ex.rows # <<>> THEN <<row2obj(ex.rows[1], NoRowid)>>
                           ELSE <<>>,
                           NoErr, FALSE, rs3)
  IN [body EXCEPT !.rs = AsyncEngine__aexit__(body.rs)]

AsyncCrud_get_or_none(M, rs, tbl, kws) ==
  AsyncCrud_get_or_none_any(M, rs, tbl, FALSE, kws)

AsyncCrud_do_insert(M, rs, tbl, ignore, returning, kws) ==
  LET q == [kind |-> "INSERT", table |-> M.tablename,
            conflict |-> IF ignore THEN "IGNORE" ELSE "ABORT",
            binds |-> kws, returning |-> returning]
      rs1 == AsyncEngine__aenter__(Logged(rs, "build"))
      own == FreshCon(rs1)
      rs2 == AsyncEngine_connect(rs1)
      ex == Execute(M, tbl, q)
      rs3 == Logged(rs2, "execute")
      rs4 == [rs3 EXCEPT !.open_curs = @ \cup {[id |-> FreshCur(rs3), con |-> own]}]
      body == IF ex.err = "IntegrityError"
                THEN Outcome(tbl, <<>>, "QueryExecutionError", FALSE, rs3)
              ELSE IF ex.err # NoErr
                THEN Outcome(tbl, <<>>, ex.err, FALSE, rs3)
              ELSE Outcome(ex.table,
                           IF returning /\ ex.rows # <<>>
                             THEN <<row2obj(ex.rows[1], ex.lastrowid)>> ELSE <<>>,
                           NoErr, FALSE, Logged(rs4, "commit"))
      \* finally: cur.close() if there is one, then con.close()
      fin == Logged([body.rs EXCEPT !.open_curs = {c \in @ : c.con # own},
                                    !.open_cons = @ \ {own}], "close")
  IN [body EXCEPT !.rs = AsyncEngine__aexit__(fin)]

AsyncCrud_insert(M, rs, tbl, kws) ==
  AsyncCrud_do_insert(M, rs, tbl, FALSE, TRUE, kws)

AsyncCrud_insert_or_ignore(M, rs, tbl, kws) ==
  AsyncCrud_do_insert(M, rs, tbl, TRUE, TRUE, kws)

AsyncCrud_get_or_create(M, rs, tbl, kws) ==
  LET got == AsyncCrud_get_or_none(M, rs, tbl, kws)
      ins == AsyncCrud_insert_or_ignore(M, got.rs, got.table, kws)
  IN IF got.err # NoErr THEN got
     ELSE IF got.ret # <<>> THEN got
     ELSE IF ins.err # NoErr THEN ins
     ELSE [ins EXCEPT !.created = TRUE]

AsyncCrud_get_many(M, rs, tbl, kws) ==
  AsyncCrud_get_or_none_any(M, rs, tbl, TRUE, kws)

\* `async with self.engine as con: await con.execute(q, vals); await con.commit()`
AsyncCrud_run(M, rs, tbl, q) ==
  LET rs1 == AsyncEngine__aenter__(Logged(rs, "build"))
      rs2 == Connection_execute(rs1, rs1.con)
      ex == Execute(M, tbl, q)
      body == IF ex.err # NoErr THEN Outcome(tbl, <<>>, ex.err, FALSE, rs2)
              ELSE Outcome(ex.table, <<>>, NoErr, FALSE, Logged(rs2, "commit"))
  IN [body EXCEPT !.rs = AsyncEngine__aexit__(body.rs)]

AsyncCrud_save_one(M, rs, tbl, obj) ==
  ReturnsTrue(AsyncCrud_run(M, rs, tbl,
    [kind |-> "INSERT", table |-> M.tablename, conflict |-> "REPLACE",
     binds |-> obj.vals, returning |-> FALSE]))

AsyncCrud_delete_one(M, rs, tbl, obj) ==
  LET id_cols == {k \in DOMAIN obj.vals : HasId(k)}
  IN ReturnsTrue(AsyncCrud_run(M, rs, tbl,
       [kind |-> "DELETE_LIST", table |-> M.tablename,
        binds |-> [k \in id_cols |-> obj.vals[k]]]))

\* AsyncCrud.delete_many as it would be without `if not objs: raise IndexError`.
AsyncCrud_delete_many_unchecked(M, rs, tbl, objs) ==
  IF \A obj \in objs : obj.rowid # NoRowid
    THEN AsyncCrud_run(M, rs, tbl,
           [kind |-> "DELETE_IN", table |-> M.tablename, col |-> "rowid",
            vals |-> {obj.rowid : obj \in objs}])
  ELSE IF M.pk # NoPk
    THEN AsyncCrud_run(M, rs, tbl,
           [kind |-> "DELETE_IN", table |-> M.tablename, col |-> "id",
            vals |-> {obj.vals[M.pk] : obj \in objs}])
  ELSE Outcome(tbl, <<>>, "BadQueryError", FALSE, rs)

AsyncCrud_delete_many(M, rs, tbl, objs) ==
  IF objs = {}
    THEN Outcome(tbl, <<>>, "IndexError", FALSE, rs)
  ELSE IF \A obj \in objs : obj.rowid # NoRowid
    THEN AsyncCrud_run(M, rs, tbl,
           [kind |-> "DELETE_IN", table |-> M.tablename, col |-> "rowid",
            vals |-> {obj.rowid : obj \in objs}])
  ELSE IF M.pk # NoPk
    THEN AsyncCrud_run(M, rs, tbl,
           [kind |-> "DELETE_IN", table |-> M.tablename, col |-> "id",
            vals |-> {obj.vals[M.pk] : obj \in objs}])
  ELSE Outcome(tbl, <<>>, "BadQueryError", FALSE, rs)

\* ------------------------------------------------------------- Engine
Schemas == {M.schema : M \in ModelTypes}

Bump(n) == IF n < MaxDdlRuns THEN n + 1 ELSE n

\* The engine's own state with the resources: what setup() and crud() work on.
EngineState(rs) ==
  [schemas |-> schemas, cruds |-> cruds, tables_created |-> tables_created,
   ddl_runs |-> ddl_runs, rs |-> rs]

\* Engine.__init__: no schema, no crud, no table yet.
Engine__init__ ==
  [schemas |-> {}, cruds |-> {}, tables_created |-> {},
   ddl_runs |-> [s \in Schemas |-> 0],
   rs |-> [con |-> NoCon, cur |-> 0, open_cons |-> {}, open_curs |-> {},
           log |-> <<>>]]

\* Engine.setup: in one scope, the pragma, then every schema of self.schemas
\* is executed and recorded, then the commit.
Engine_setup_op(e) ==
  LET rs1 == Connection_execute(Engine__enter__(e.rs), FreshCon(e.rs))
  IN [e EXCEPT !.ddl_runs = [s \in Schemas |-> IF s \in e.schemas THEN Bump(@[s])
                                               ELSE @[s]],
               !.tables_created = @ \cup e.schemas,
               !.rs = Engine__exit__(Logged(rs1, "commit"))]

\* Engine.crud as it would be without the tables_created test.
Engine_crud_op_unguarded(e, M) ==
  LET rs1 == Connection_execute(Engine__enter__(e.rs), FreshCon(e.rs))
  IN [e EXCEPT !.cruds = @ \cup {M},
               !.ddl_runs[M.schema] = Bump(@),
               !.tables_created = @ \cup {M.schema},
               !.rs = Engine__exit__(Logged(rs1, "commit"))]

\* Engine.crud: the facade of the model is cached, and the model's schema is
\* executed unless tables_created already records it.
Engine_crud_op(e, M) ==
  LET rs1 == Connection_execute(Engine__enter__(e.rs), FreshCon(e.rs))
  IN IF M.schema \notin e.tables_created
       THEN [e EXCEPT !.cruds = @ \cup {M},
                      !.ddl_runs[M.schema] = Bump(@),
                      !.tables_created = @ \cup {M.schema},
                      !.rs = Engine__exit__(Logged(rs1, "commit"))]
     ELSE [e EXCEPT !.cruds = @ \cup {M}]

\* ------------------------------------------------------------- actions
NoScopes == [s \in 1..MaxScopes |-> NoCon]

EmptyTable == [r \in {} |-> [f \in {} |-> NULL]]

\* The engine part of a step.
EngineStep(e) ==
  /\ schemas' = e.schemas
  /\ cruds' = e.cruds
  /\ tables_created' = e.tables_created
  /\ ddl_runs' = e.ddl_runs
  /\ con' = e.rs.con
  /\ open_cons' = e.rs.open_cons
  /\ open_curs' = e.rs.open_curs

\* The Crud part of a step: the operation's outcome becomes the state. A row
\* beyond MaxRowid is outside the model.
CrudStep(o) ==
  /\ MaxOf(DOMAIN o.table) <= MaxRowid
  /\ table' = o.table
  /\ con' = o.rs.con
  /\ open_cons' = o.rs.open_cons
  /\ open_curs' = o.rs.open_curs
  /\ UNCHANGED <<Model, variant, schemas, cruds, tables_created, ddl_runs, held>>

\* The instances a caller passes to the bulk delete: built in memory (no
\* rowid) or as a read returned them.
Readable(M, tbl) ==
  {obj \in Instances(M) :
     obj.rowid = NoRowid \/ (obj.rowid \in DOMAIN tbl /\ tbl[obj.rowid] = obj.vals)}

\* The sets of at most n elements of S.
RECURSIVE UpTo(_, _)
UpTo(S, n) ==
  IF n = 0 THEN {{}}
  ELSE LET P == UpTo(S, n - 1) IN P \cup {T \cup {x} : T \in P, x \in S}

ObjSets(M, tbl) == UpTo(Readable(M, tbl), MaxObjs)

Sync_get_or_none ==
  /\ variant = "sync"
  /\ \E kws \in PredicateKws(Model) :
       CrudStep(Crud_get_or_none(Model, Resources, table, kws))

Sync_insert ==
  /\ variant = "sync"
  /\ \E kws \in InsertKws(Model) :
       CrudStep(Crud_insert(Model, Resources, table, kws))

Sync_insert_or_ignore ==
  /\ variant = "sync"
  /\ \E kws \in InsertKws(Model) :
       CrudStep(Crud_insert_or_ignore(Model, Resources, table, kws))

Sync_get_or_create ==
  /\ variant = "sync"
  /\ \E kws \in InsertKws(Model) :
       CrudStep(Crud_get_or_create(Model, Resources, table, kws))

Sync_get_many ==
  /\ variant = "sync"
  /\ \E kws \in PredicateKws(Model) :
       CrudStep(Crud_get_many(Model, Resources, table, kws))

Sync_save_one ==
  /\ variant = "sync"
  /\ \E obj \in Instances(Model) :
       CrudStep(Crud_save_one(Model, Resources, table, obj))

Sync_delete_one ==
  /\ variant = "sync"
  /\ \E obj \in Instances(Model) :
       CrudStep(Crud_delete_one(Model, Resources, table, obj))

Sync_delete_many ==
  /\ variant = "sync"
  /\ \E objs \in ObjSets(Model, table) :
       CrudStep(Crud_delete_many(Model, Resources, table, objs))

Async_get_or_none ==
  /\ variant = "async"
  /\ \E kws \in PredicateKws(Model) :
       CrudStep(AsyncCrud_get_or_none(Model, Resources, table, kws))

Async_insert ==
  /\ variant = "async"
  /\ \E kws \in InsertKws(Model) :
       CrudStep(AsyncCrud_insert(Model, Resources, table, kws))

Async_insert_or_ignore ==
  /\ variant = "async"
  /\ \E kws \in InsertKws(Model) :
       CrudStep(AsyncCrud_insert_or_ignore(Model, Resources, table, kws))

Async_get_or_create ==
  /\ variant = "async"
  /\ \E kws \in InsertKws(Model) :
       CrudStep(AsyncCrud_get_or_create(Model, Resources, table, kws))

Async_get_many ==
  /\ variant = "async"
  /\ \E kws \in PredicateKws(Model) :
       CrudStep(AsyncCrud_get_many(Model, Resources, table, kws))

Async_save_one ==
  /\ variant = "async"
  /\ \E obj \in Instances(Model) :
       CrudStep(AsyncCrud_save_one(Model, Resources, table, obj))

Async_delete_one ==
  /\ variant = "async"
  /\ \E obj \in Instances(Model) :
       CrudStep(AsyncCrud_delete_one(Model, Resources, table, obj))

Async_delete_many ==
  /\ variant = "async"
  /\ \E objs \in ObjSets(Model, table) :
       CrudStep(AsyncCrud_delete_many(Model, Resources, table, objs))

Engine_setup ==
  /\ CanConnect(Resources)
  /\ EngineStep(Engine_setup_op(EngineState(Resources)))
  /\ UNCHANGED <<Model, variant, table, held>>

Engine_crud ==
  /\ CanConnect(Resources)
  /\ \E M \in ModelTypes :
       EngineStep(Engine_crud_op(EngineState(Resources), M))
  /\ UNCHANGED <<Model, variant, table, held>>

\* A caller's own `with engine as con:` block, entered ...
Scope_enter ==
  /\ CanConnect(Resources)
  /\ \E s \in 1..MaxScopes :
       /\ held[s] = NoCon
       /\ LET rs1 == Engine__enter__(Resources)
          IN /\ held' = [held EXCEPT ![s] = rs1.con]
             /\ con' = rs1.con
             /\ open_cons' = rs1.open_cons
             /\ open_curs' = rs1.open_curs
  /\ UNCHANGED <<Model, variant, table, schemas, cruds, tables_created, ddl_runs>>

\* ... and left.
Scope_exit ==
  /\ \E s \in 1..MaxScopes :
       /\ held[s] # NoCon
       /\ LET rs1 == Engine__exit__(Resources)
          IN /\ held' = [held EXCEPT ![s] = NoCon]
             /\ con' = rs1.con
             /\ open_cons' = rs1.open_cons
             /\ open_curs' = rs1.open_curs
  /\ UNCHANGED <<Model, variant, table, schemas, cruds, tables_created, ddl_runs>>

\* ------------------------------------------------------------- specifications
\* The Crud facade of one model, as engine.crud(Model) hands it out on a new
\* engine, and then any sequence of its operations.
Init ==
  /\ Model \in ModelTypes
  /\ variant \in {"sync", "async"}
  /\ table = EmptyTable
  /\ held = NoScopes
  /\ LET e == Engine_crud_op(Engine__init__, Model)
     IN /\ schemas = e.schemas
        /\ cruds = e.cruds
        /\ tables_created = e.tables_created
        /\ ddl_runs = e.ddl_runs
        /\ con = e.rs.con
        /\ open_cons = e.rs.open_cons
        /\ open_curs = e.rs.open_curs

Next ==
  \/ Sync_get_or_none
  \/ Sync_insert
  \/ Sync_insert_or_ignore
  \/ Sync_get_or_create
  \/ Sync_get_many
  \/ Sync_save_one
  \/ Sync_delete_one
  \/ Sync_delete_many
  \/ Async_get_or_none
  \/ Async_insert
  \/ Async_insert_or_ignore
  \/ Async_get_or_create
  \/ Async_get_many
  \/ Async_save_one
  \/ Async_delete_one
  \/ Async_delete_many

Spec == Init /\ [][Next]_vars

\* One Engine from its construction on: setup(), crud(ModelType) and the
\* callers' own scopes, in any order.
InitEngine ==
  /\ Model = User
  /\ variant = "sync"
  /\ table = EmptyTable
  /\ held = NoScopes
  /\ schemas = Engine__init__.schemas
  /\ cruds = Engine__init__.cruds
  /\ tables_created = Engine__init__.tables_created
  /\ ddl_runs = Engine__init__.ddl_runs
  /\ con = Engine__init__.rs.con
  /\ open_cons = Engine__init__.rs.open_cons
  /\ open_curs = Engine__init__.rs.open_curs

NextEngine ==
  \/ Engine_setup
  \/ Engine_crud
  \/ Scope_enter
  \/ Scope_exit

SpecEngine == InitEngine /\ [][NextEngine]_vars

\* ------------------------------------------------------------- properties
\* The facade in use: Crud for the blocking variant, AsyncCrud for the
\* suspending one.
Insert(tbl, kws) ==
  IF variant = "sync" THEN Crud_insert(Model, Resources, tbl, kws)
  ELSE AsyncCrud_insert(Model, Resources, tbl, kws)

InsertOrIgnore(tbl, kws) ==
  IF variant = "sync" THEN Crud_insert_or_ignore(Model, Resources, tbl, kws)
  ELSE AsyncCrud_insert_or_ignore(Model, Resources, tbl, kws)

GetOrNone(tbl, kws) ==
  IF variant = "sync" THEN Crud_get_or_none(Model, Resources, tbl, kws)
  ELSE AsyncCrud_get_or_none(Model, Resources, tbl, kws)

GetMany(tbl, kws) ==
  IF variant = "sync" THEN Crud_get_many(Model, Resources, tbl, kws)
  ELSE AsyncCrud_get_many(Model, Resources, tbl, kws)

GetOrCreate(tbl, kws) ==
  IF variant = "sync" THEN Crud_get_or_create(Model, Resources, tbl, kws)
  ELSE AsyncCrud_get_or_create(Model, Resources, tbl, kws)

SaveOne(tbl, obj) ==
  IF variant = "sync" THEN Crud_save_one(Model, Resources, tbl, obj)
  ELSE AsyncCrud_save_one(Model, Resources, tbl, obj)

DeleteOne(tbl, obj) ==
  IF variant = "sync" THEN Crud_delete_one(Model, Resources, tbl, obj)
  ELSE AsyncCrud_delete_one(Model, Resources, tbl, obj)

DeleteMany(tbl, objs) ==
  IF variant = "sync" THEN Crud_delete_many(Model, Resources, tbl, objs)
  ELSE AsyncCrud_delete_many(Model, Resources, tbl, objs)

\* The primary-key keyword of a complete field mapping.
PkOf(values) == [k \in {Model.pk} |-> values[k]]

\* The rows whose primary key is that of the mapping.
RowsWithPk(tbl, values) ==
  {r \in DOMAIN tbl : tbl[r][Model.pk] = values[Model.pk]}

Has(log, event) == \E i \in 1..Len(log) : log[i] = event

\* Nothing was built, no connection opened, nothing executed.
Untouched(o) == o.rs.log = <<>> /\ o.table = table

\* C1. Round trip: on a model with a declared primary key, in any reachable
\* store state with no row of the given primary-key value, insert(**values)
\* followed at once by get_or_none(pk=values[pk]) returns an instance whose
\* field mapping equals values.
C1_RoundTrip ==
  \A values \in Rows(Model) :
    (Model.pk # NoPk /\ RowsWithPk(table, values) = {}) =>
      LET ins == Insert(table, values)
          got == GetOrNone(ins.table, PkOf(values))
      IN /\ ins.err = NoErr
         /\ got.err = NoErr
         /\ got.ret # <<>>
         /\ got.ret[1].vals = values

\* A store that already holds a row, and a new primary-key value whose
\* insert and read-back return the inserted values.
C1_Witness ==
  /\ Model.pk # NoPk
  /\ table # EmptyTable
  /\ \E values \in Rows(Model) :
       /\ RowsWithPk(table, values) = {}
       /\ LET ins == Insert(table, values)
              got == GetOrNone(ins.table, PkOf(values))
          IN ins.ret # <<>> /\ got.ret # <<>> /\ got.ret[1].vals = values
                            /\ got.ret[1].rowid = ins.ret[1].rowid

\* C2. Conflict semantics: on a model whose primary key is id, with a row of
\* id = k stored, insert(id=k, ...) fails with QueryExecutionError and
\* insert_or_ignore(id=k, ...) returns none without raising; either way the
\* store is as it was.
C2_Conflict ==
  \A kws \in Rows(Model) :
    (Model.pk = "id" /\ RowsWithPk(table, kws) # {}) =>
      LET ins == Insert(table, kws)
          ign == InsertOrIgnore(table, kws)
      IN /\ ins.err = "QueryExecutionError"
         /\ ins.table = table
         /\ ign.err = NoErr
         /\ ign.ret = <<>>
         /\ ign.table = table

\* A stored row with id = k and other field values than the conflicting
\* insert offers.
C2_Witness ==
  /\ Model.pk = "id"
  /\ \E kws \in Rows(Model) : \E r \in DOMAIN table :
       /\ table[r]["id"] = kws["id"]
       /\ table[r] # kws
       /\ Insert(table, kws).err = "QueryExecutionError"
       /\ InsertOrIgnore(table, kws).ret = <<>>
       /\ InsertOrIgnore(table, kws).table[r] = table[r]

\* C3. Idempotent get-or-create: in any reachable store state with no row
\* matching all of kws, two successive get_or_create(**kws) return the same
\* non-none instance, created on the first call and not on the second.
C3_GetOrCreateTwice ==
  \A kws \in Rows(Model) :
    RowidsMatching(table, kws) = {} =>
      LET first == GetOrCreate(table, kws)
          second == GetOrCreate(first.table, kws)
      IN /\ first.err = NoErr /\ second.err = NoErr
         /\ first.ret # <<>>
         /\ second.ret = first.ret
         /\ first.created
         /\ ~second.created

\* C4. Unknown field rejection: in both variants, each of get_or_none,
\* get_many, insert, insert_or_ignore and get_or_create, called with a keyword
\* that is no declared field, fails with KeyError before a statement is built,
\* a connection opened or anything executed; the store is unchanged.
C4_Rejected(o) == o.err = "KeyError" /\ Untouched(o)

C4_UnknownField ==
  /\ \A kws \in PredicateKws(Model) :
       Unknown \in DOMAIN kws =>
         /\ C4_Rejected(GetOrNone(table, kws))
         /\ C4_Rejected(GetMany(table, kws))
  /\ \A kws \in InsertKws(Model) :
       Unknown \in DOMAIN kws =>
         /\ C4_Rejected(Insert(table, kws))
         /\ C4_Rejected(InsertOrIgnore(table, kws))
         /\ C4_Rejected(GetOrCreate(table, kws))

\* C5. Bulk delete precondition: delete_many() of no instance fails with
\* IndexError; delete_many of instances not all carrying a rowid, on a model
\* without primary key, fails with BadQueryError; either way nothing is
\* executed and the store is unchanged.
C5_DeleteManyPrecondition ==
  \A objs \in ObjSets(Model, table) :
    LET o == DeleteMany(table, objs)
    IN /\ objs = {} =>
            o.err = "IndexError" /\ ~Has(o.rs.log, "execute") /\ o.table = table
       /\ (objs # {} /\ Model.pk = NoPk /\ \E obj \in objs : obj.rowid = NoRowid) =>
            o.err = "BadQueryError" /\ ~Has(o.rs.log, "execute") /\ o.table = table

\* A model without primary key, a stored row, and a bulk delete of an instance
\* read from the store together with one built in memory.
C5_Witness ==
  /\ Model.pk = NoPk
  /\ table # EmptyTable
  /\ DeleteMany(table, {}).err = "IndexError"
  /\ \E objs \in ObjSets(Model, table) :
       /\ \E obj \in objs : obj.rowid = NoRowid
       /\ \E obj \in objs : obj.rowid # NoRowid
       /\ DeleteMany(table, objs).err = "BadQueryError"

\* The rows of tbl other than those of the rowids in gone.
Without(tbl, gone) == Restrict(tbl, DOMAIN tbl \ gone)

\* C6. save_one(obj) returns true; when obj carries an identity (a value of
\* the declared primary key, or a captured rowid) the row of that identity is
\* updated and the number of stored rows is unchanged; only without identity
\* is a row inserted or replaced.
C6_SaveOne ==
  \A obj \in Instances(Model) :
    LET o == SaveOne(table, obj)
        identified == Model.pk # NoPk \/ obj.rowid # NoRowid
        target == IF Model.pk # NoPk
                    THEN {r \in DOMAIN table : table[r][Model.pk] = obj.vals[Model.pk]}
                  ELSE {obj.rowid} \cap DOMAIN table
    IN /\ o.err = NoErr
       /\ o.true
       /\ identified =>
            /\ DOMAIN o.table = DOMAIN table
            /\ \A r \in DOMAIN table :
                 o.table[r] = IF r \in target THEN obj.vals ELSE table[r]
       /\ ~identified =>
            /\ \E r \in DOMAIN o.table : r \notin DOMAIN table /\ o.table[r] = obj.vals
            /\ \A r \in DOMAIN table : r \in DOMAIN o.table /\ o.table[r] = table[r]

C8_DeleteManyExact ==
  \A objs \in ObjSets(Model, table) :
    LET o == DeleteMany(table, objs)
        byRowid == \A obj \in objs : obj.rowid # NoRowid
        rowids == {obj.rowid : obj \in objs}
        pks == {obj.vals[Model.pk] : obj \in objs}
    IN /\ (objs # {} /\ byRowid) =>
            o.err = NoErr /\ o.table = Without(table, rowids)
       /\ (objs # {} /\ ~byRowid /\ Model.pk # NoPk) =>
            /\ o.err = NoErr
            /\ o.table = Without(table, {r \in DOMAIN table : table[r][Model.pk] \in pks})

\* C9. delete_one(obj) locates the row by the declared primary key; else by
\* the rowid captured on obj; else by equality on every field whose name
\* contains "id"; with no such field it fails with BadQueryError and executes
\* nothing. Only rows of the chosen identity are deleted.
C9_DeleteOneIdentity ==
  \A obj \in Readable(Model, table) :
    LET o == DeleteOne(table, obj)
        id_cols == {k \in Model.fields : HasId(k)}
    IN IF Model.pk # NoPk
         THEN /\ o.err = NoErr
              /\ o.table = Without(table, {r \in DOMAIN table :
                                             table[r][Model.pk] = obj.vals[Model.pk]})
       ELSE IF obj.rowid # NoRowid
         THEN o.err = NoErr /\ o.table = Without(table, {obj.rowid})
       ELSE IF id_cols # {}
         THEN /\ o.err = NoErr
              /\ o.table = Without(table, {r \in DOMAIN table :
                                             \A k \in id_cols : table[r][k] = obj.vals[k]})
       ELSE o.err = "BadQueryError" /\ ~Has(o.rs.log, "execute") /\ o.table = table

\* No connection and no cursor is open after the operation.
Released(o) == o.rs.open_cons = {} /\ o.rs.open_curs = {}

\* C10. Every connection and cursor a Crud operation opens is released when
\* the operation exits, by return or by error (a QueryExecutionError of
\* insert included): after any sequence of Crud operations none is open.
C10_Released ==
  /\ open_cons = {}
  /\ open_curs = {}
  /\ \A kws \in PredicateKws(Model) :
       Released(GetOrNone(table, kws)) /\ Released(GetMany(table, kws))
  /\ \A kws \in InsertKws(Model) :
       /\ Released(Insert(table, kws))
       /\ Released(InsertOrIgnore(table, kws))
       /\ Released(GetOrCreate(table, kws))
  /\ \A obj \in Instances(Model) :
       Released(SaveOne(table, obj)) /\ Released(DeleteOne(table, obj))
  /\ \A objs \in ObjSets(Model, table) : Released(DeleteMany(table, objs))

\* An insert that opened a connection and a cursor, executed, and failed with
\* QueryExecutionError on a stored row.
C10_Witness ==
  /\ table # EmptyTable
  /\ open_cons = {}
  /\ \E kws \in Rows(Model) :
       LET o == Insert(table, kws)
       IN /\ o.err = "QueryExecutionError"
          /\ Has(o.rs.log, "connect")
          /\ Has(o.rs.log, "execute")
          /\ Has(o.rs.log, "close")
          /\ Released(o)

\* The connections the callers' open `with engine` scopes got from __enter__.
HeldCons == {held[s] : s \in {t \in DOMAIN held : held[t] # NoCon}}

\* C11. Overlapping acquisitions of one Engine (a scope entered before
\* another has exited, nested or interleaved, engine.crud(Model) inside a
\* scope included): each scope's exit closes the connection that scope
\* opened. So the connection of every scope still open is open (none is
\* closed while in use), every open connection belongs to a scope still open
\* (none is left behind), and the exit of a scope closes exactly its own.
C11_OwnScopeCloses ==
  /\ \A s \in DOMAIN held : held[s] # NoCon => held[s] \in open_cons
  /\ open_cons \subseteq HeldCons
  /\ \A s \in DOMAIN held :
       held[s] # NoCon =>
         Engine__exit__(Resources).open_cons = open_cons \ {held[s]}

====
